---- MODULE Spec2Model ----
(***************************************************************************)
(* Verification model of the Archi workbench repository.                   *)
(*                                                                         *)
(*  - the Hitem3D front-end integration (service class, React hook and     *)
(*    React component) given in FRONTEND_3D_MODEL_MANUAL.md, together with *)
(*    the remote generation service it talks to;                           *)
(*  - the ArchiGui module initialisation and the workbench's toolbar and   *)
(*    menu set-up (ArchiGui.cpp, Command.cpp / Workbench.cpp).             *)
(*                                                                         *)
(* JavaScript values are encoded as follows: null is Null (the empty       *)
(* sequence) and a present value v is Some(v); an absent string field is   *)
(* the string "undefined"; an absent number is Undefined.                  *)
(***************************************************************************)
EXTENDS Integers, Sequences, FiniteSets, TLC

VARIABLES
    \* ---- Hitem3DGenerator component state (useState)
    mode,           \* 'single' | 'multi'
    selectedFiles,  \* File[]: the names of the files of the last upload
    imagePaths,     \* partial map view key -> path
    \* ---- useHitem3D hook state (useState)
    result,         \* any | null
    progress,       \* number
    state,          \* string
    loading,        \* boolean
    error,          \* string | null
    \* ---- one submitImages run and the pollResult promise inside it
    runPc,          \* "idle" | "awaitSubmit" | "awaitPoll"
    taskId,         \* the task id the current run polls (0: none yet)
    promise,        \* pollResult's promise: "none" | "pending" | "resolved" | "rejected"
    settleCalls,    \* resolve/reject calls made on that promise
    lastPoll,       \* the last get-object answer this run has handled
    inflight,       \* HTTP requests sent and not yet answered, in sending order
    timers,         \* pending setTimeout(poll, ...) timers
    submits,        \* number of submit requests sent so far
    \* ---- the remote generation service
    remote,         \* task id -> task state ("none": not created)
    respShape,      \* what get-object answers under legacy=true
    \* ---- the host application and its embedded interpreter
    hostGui,        \* Gui::Application::Instance exists (not a console application)
    importable,     \* the host modules whose import succeeds
    modules,        \* the modules the interpreter has loaded
    pyError,        \* the pending ImportError, if any
    resources,      \* the Archi resources have been registered
    commands,       \* command names registered with the command manager
    wbActive,       \* the Archi workbench is the active one
    toolBars,       \* tool bar items below the root, each [command, items]
    menuBar,        \* menu items below the root, each [command, items]
    s_instance,     \* ProjectContextWindow::s_instance
    \* ---- the image galleries (ImageData) of the project context window
    m_style,        \* gallery -> ImageStyle
    m_layouts,      \* gallery -> the column layouts, each the labels it holds, top first
    m_heights,      \* gallery -> the accumulated height of each column
    crashed,        \* the process was ended by an out-of-bounds access
    \* ---- VideoPlayerWidget and the multimedia objects it owns
    m_player,             \* QMediaPlayer: playback state, media status, position, ...
    m_audioOutput,        \* QAudioOutput: the volume, a single-precision number
    m_playPauseButton,    \* QPushButton: icon and tool tip
    m_positionSlider,     \* QSlider: range, value and whether it is held down
    m_timeLabel,          \* QLabel: its text
    m_isSliderBeingMoved,
    m_seekPreviewAfterLoad,
    m_controlsVisible,
    m_autoLoop,
    m_frameRate,          \* frames per second, 0: no mapping
    m_totalFrames,
    loopsSupported,       \* built against Qt >= 6.4: QMediaPlayer::setLoops exists
    calls,                \* the requests the last step made to the player, in order
    emitted,              \* the signals the widget emitted during the last step, in order
    \* ---- the VideoPlayerWidgetPy objects of the interpreter and their widgets
    wrappers              \* slot -> the wrapper, its members and the widget it points to

feVars == <<mode, selectedFiles, imagePaths, result, progress, state, loading,
            error, runPc, taskId, promise, settleCalls, lastPoll, inflight,
            timers, submits, remote, respShape>>
guiVars == <<hostGui, importable, modules, pyError, resources, commands,
             wbActive, toolBars, menuBar, s_instance>>
galVars == <<m_style, m_layouts, m_heights, crashed>>
vpVars == <<m_player, m_audioOutput, m_playPauseButton, m_positionSlider, m_timeLabel,
            m_isSliderBeingMoved, m_seekPreviewAfterLoad, m_controlsVisible,
            m_autoLoop, m_frameRate, m_totalFrames, loopsSupported, calls, emitted>>
pyVars == <<wrappers>>
vars == <<mode, selectedFiles, imagePaths, result, progress, state, loading,
          error, runPc, taskId, promise, settleCalls, lastPoll, inflight,
          timers, submits, remote, respShape, hostGui, importable, modules,
          pyError, resources, commands, wbActive, toolBars, menuBar,
          s_instance, m_style, m_layouts, m_heights, crashed, m_player,
          m_audioOutput, m_playPauseButton, m_positionSlider, m_timeLabel,
          m_isSliderBeingMoved, m_seekPreviewAfterLoad, m_controlsVisible,
          m_autoLoop, m_frameRate, m_totalFrames, loopsSupported, calls, emitted,
          wrappers>>

-----------------------------------------------------------------------------
(* Bounds of the model *)

\* submit requests one behaviour may send
MaxSubmits == 2
\* files one upload may hold
MaxFiles == 4
\* the time one Tick step lets pass, in milliseconds
TickMs == 1000
\* image labels one gallery may hold
MaxLabels == 3
\* the VideoPlayerWidgetPy objects the interpreter holds
MaxWrappers == 2

\* the files the user can pick: img1.png .. imgN.png
FileName(i) == "img" \o ToString(i) \o ".png"
Listing == [i \in 1..MaxFiles |-> FileName(i)]
Reversed == [i \in 1..MaxFiles |-> FileName(MaxFiles + 1 - i)]
ErrorBodies == {"busy"}
FailMessages == {"quota exceeded"}

-----------------------------------------------------------------------------
(* JavaScript values *)

Null == <<>>
Some(v) == <<v>>
Undefined == -1

Max(a, b) == IF a >= b THEN a ELSE b

RemoveAt(s, i) == SubSeq(s, 1, i - 1) \o SubSeq(s, i + 1, Len(s))

-----------------------------------------------------------------------------
(* The remote service: task states and the get-object response *)

TaskStates == {"created", "queueing", "processing", "success", "failed"}
Terminal == {"success", "failed"}

\* the stage of a task state along created -> queueing -> processing -> {success | failed}
Rank(s) ==
    CASE s = "created" -> 1
      [] s = "queueing" -> 2
      [] s = "processing" -> 3
      [] s \in Terminal -> 4
      [] OTHER -> 0

\* Task States & Progress table
ProgressOf(s) ==
    CASE s = "created" -> 5
      [] s = "queueing" -> 20
      [] s = "processing" -> 60
      [] s = "success" -> 100
      [] s = "failed" -> 0

\* the lifecycle: the states a task in state s may move to
NextStates(s) ==
    CASE s = "created" -> {"queueing"}
      [] s = "queueing" -> {"processing"}
      [] s = "processing" -> {"success", "failed"}
      [] OTHER -> {}

\* interface Hitem3DQueryResult: state and message, no progress
NewBody(t, s, msg) ==
    [task_id |-> t, state |-> s, progress |-> Undefined,
     message |-> IF s = "failed" THEN msg ELSE Null, object |-> FALSE,
     url |-> s = "success"]

\* interface LegacyResult: progress and the object with the download URLs, no state
LegacyBody(t, s) ==
    [task_id |-> 0, state |-> "undefined", progress |-> ProgressOf(s),
     message |-> Null, object |-> s = "success", url |-> FALSE]

\* a legacy answer that also carries the new format's fields
StatefulBody(t, s, msg) ==
    [task_id |-> t, state |-> s, progress |-> ProgressOf(s),
     message |-> IF s = "failed" THEN msg ELSE Null, object |-> s = "success",
     url |-> s = "success"]

\* GET /get-object?task_id&legacy answered when the task is in state s
GetObjectBody(req, s, msg) ==
    IF req.legacy
    THEN IF respShape = "legacy" THEN LegacyBody(req.task, s)
         ELSE StatefulBody(req.task, s, msg)
    ELSE NewBody(req.task, s, msg)

-----------------------------------------------------------------------------
(* Hitem3DGenerator: mode selection, file upload, submit *)

ImageKeys == {"front", "back", "left", "right", "other"}

UploadPath(name) == "/uploads/" \o name

\* the image paths handleFileUpload derives from the chosen files
PathsAfterUpload(m, files, old) ==
    IF m = "single" /\ Len(files) > 0
    THEN [k \in {"other"} |-> UploadPath(files[1])]
    ELSE IF m = "multi" /\ Len(files) >= 4
    THEN [k \in {"front", "back", "left", "right"} |->
            CASE k = "front" -> UploadPath(files[1])
              [] k = "back" -> UploadPath(files[2])
              [] k = "left" -> UploadPath(files[3])
              [] k = "right" -> UploadPath(files[4])]
    ELSE old

\* a handleSubmit that forgets to spread imagePaths into the request
SubmitRequestBodyNoImages(paths) ==
    [images |-> <<>>, model |-> "hitem3dv1.5", format |-> 2, request_type |-> 3]

\* the body handleSubmit passes to submitImages: {...imagePaths, model, format, request_type}
SubmitRequestBody(paths) ==
    [images |-> paths, model |-> "hitem3dv1.5", format |-> 2, request_type |-> 3]

\* the submit button's disabled attribute
SubmitDisabled == loading \/ DOMAIN imagePaths = {}

\* the file input's disabled attribute
UploadDisabled == loading

\* the files one change event of the file input can hold: one at most unless `multiple`
Uploads(m) ==
    LET n == IF m = "multi" THEN MaxFiles ELSE 1
    IN  {SubSeq(Listing, 1, k) : k \in 0..n} \cup {SubSeq(Reversed, 1, k) : k \in 0..n}

SetMode(m) ==
    /\ mode' = m
    /\ UNCHANGED <<selectedFiles, imagePaths, result, progress, state, loading,
                   error, runPc, taskId, promise, settleCalls, lastPoll,
                   inflight, timers, submits, remote, respShape>>
    /\ UNCHANGED <<guiVars, galVars, vpVars, pyVars>>

HandleFileUpload(files) ==
    /\ ~UploadDisabled
    /\ selectedFiles' = files
    /\ imagePaths' = PathsAfterUpload(mode, files, imagePaths)
    /\ UNCHANGED <<mode, result, progress, state, loading, error, runPc, taskId,
                   promise, settleCalls, lastPoll, inflight, timers, submits,
                   remote, respShape>>
    /\ UNCHANGED <<guiVars, galVars, vpVars, pyVars>>

-----------------------------------------------------------------------------
(* Hitem3DService and useHitem3D *)

SubmitRequest(body) ==
    [kind |-> "submit", task |-> 0, legacy |-> FALSE, body |-> Some(body)]

\* getResult(taskId, legacy): GET /get-object?task_id=..&legacy=..
GetResultRequest(t, legacy) ==
    [kind |-> "get", task |-> t, legacy |-> legacy, body |-> Null]

\* a poll() that asks for the new format: getResult(taskId)
PollRequestNewFormat(t) == GetResultRequest(t, FALSE)

\* pollResult's poll(): getResult(taskId, true)
PollRequest(t) == GetResultRequest(t, TRUE)

\* setTimeout(poll, 2000)
PollIntervalMs == 2000
PollTimer(t) == [task |-> t, left |-> PollIntervalMs]

\* a poll() that takes a task still being processed for a finished one
PollDecisionEarly(body) ==
    IF body.state \in {"success", "processing"} THEN "resolve"
    ELSE IF body.state = "failed" THEN "reject"
    ELSE "again"

\* a poll() that keeps polling a failed task
PollDecisionRetry(body) ==
    IF body.state = "success" THEN "resolve" ELSE "again"

\* a poll() that goes on polling after it has resolved
PollDecisionPastSuccess(body) ==
    IF body.state = "failed" THEN "reject" ELSE "again"

\* what poll() does with a parsed response: "resolve", "reject" or "again"
PollDecision(body) ==
    IF body.state = "success" THEN "resolve"
    ELSE IF body.state = "failed" THEN "reject"
    ELSE "again"

\* new Error(result.message || 'Generation failed'): an absent or empty message is falsy
FailedMessage(body) ==
    IF body.message = Null \/ body.message = Some("") THEN "Generation failed"
    ELSE body.message[1]

GetResultError(text) == "Get result failed: " \o text
SubmitError(text) == "Submit failed: " \o text

\* no get-object answer handled yet
NoPoll == [kind |-> "none", state |-> "", message |-> Null, text |-> ""]

\* a submitImages that leaves the error of the run before in place
StartRunKeepsError(body) ==
    /\ loading' = TRUE
    /\ error' = error
    /\ progress' = 0
    /\ state' = ""
    /\ result' = Null
    /\ runPc' = "awaitSubmit"
    /\ taskId' = 0
    /\ promise' = "none"
    /\ settleCalls' = 0
    /\ lastPoll' = NoPoll
    /\ inflight' = Append(inflight, SubmitRequest(body))
    /\ submits' = submits + 1
    /\ UNCHANGED <<timers, remote>>

\* submitImages of the hook up to its first await: reset the state, send the POST
StartRun(body) ==
    /\ loading' = TRUE
    /\ error' = Null
    /\ progress' = 0
    /\ state' = ""
    /\ result' = Null
    /\ runPc' = "awaitSubmit"
    /\ taskId' = 0
    /\ promise' = "none"
    /\ settleCalls' = 0
    /\ lastPoll' = NoPoll
    /\ inflight' = Append(inflight, SubmitRequest(body))
    /\ submits' = submits + 1
    /\ UNCHANGED <<timers, remote>>

HandleSubmit ==
    /\ ~SubmitDisabled
    /\ submits < MaxSubmits
    /\ IF DOMAIN imagePaths = {}
       THEN UNCHANGED <<result, progress, state, loading, error, runPc, taskId,
                        promise, settleCalls, lastPoll, inflight, timers,
                        submits, remote>>
       ELSE StartRun(SubmitRequestBody(imagePaths))
    /\ UNCHANGED <<mode, selectedFiles, imagePaths, respShape>>
    /\ UNCHANGED <<guiVars, galVars, vpVars, pyVars>>

\* the task ids the service has handed out
Created == {t \in DOMAIN remote : remote[t] # "none"}

\* POST /submit-images answered 2xx: the service creates a task; the hook goes on to
\* pollResult, whose first poll() sends the first status request at once
SubmitOk(i) ==
    /\ inflight[i].kind = "submit"
    /\ LET t == Cardinality(Created) + 1
       IN  /\ remote' = [remote EXCEPT ![t] = "created"]
           /\ taskId' = t
           /\ inflight' = Append(RemoveAt(inflight, i), PollRequest(t))
    /\ runPc' = "awaitPoll"
    /\ promise' = "pending"
    /\ UNCHANGED <<result, progress, state, loading, error, settleCalls,
                   lastPoll, timers, submits>>
    /\ UNCHANGED <<mode, selectedFiles, imagePaths, respShape>>
    /\ UNCHANGED <<guiVars, galVars, vpVars, pyVars>>

\* POST /submit-images answered non-2xx: submitImages throws, the hook's catch and
\* finally run
SubmitFails(i, text) ==
    /\ inflight[i].kind = "submit"
    /\ inflight' = RemoveAt(inflight, i)
    /\ error' = Some(SubmitError(text))
    /\ loading' = FALSE
    /\ runPc' = "idle"
    /\ UNCHANGED <<result, progress, state, taskId, promise, settleCalls,
                   lastPoll, timers, submits, remote>>
    /\ UNCHANGED <<mode, selectedFiles, imagePaths, respShape>>
    /\ UNCHANGED <<guiVars, galVars, vpVars, pyVars>>

\* the hook after `await service.pollResult(...)` settles; a promise settles once, so a
\* later resolve or reject call changes nothing
AfterSettle(how, value) ==
    IF promise = "pending"
    THEN /\ promise' = how
         /\ result' = IF how = "resolved" THEN Some(value) ELSE result
         /\ error' = IF how = "rejected" THEN Some(value) ELSE error
         /\ loading' = FALSE
         /\ runPc' = "idle"
    ELSE UNCHANGED <<promise, result, error, loading, runPc>>

\* poll() after `await this.getResult(taskId, true)` returned body
PollHandle(i, body) ==
    /\ progress' = body.progress
    /\ state' = body.state
    /\ lastPoll' = [kind |-> "ok", state |-> body.state, message |-> body.message,
                    text |-> ""]
    /\ CASE PollDecision(body) = "resolve" ->
              /\ AfterSettle("resolved", body)
              /\ settleCalls' = settleCalls + 1
              /\ inflight' = RemoveAt(inflight, i)
              /\ UNCHANGED timers
         [] PollDecision(body) = "reject" ->
              /\ AfterSettle("rejected", FailedMessage(body))
              /\ settleCalls' = settleCalls + 1
              /\ inflight' = RemoveAt(inflight, i)
              /\ UNCHANGED timers
         [] OTHER ->
              /\ timers' = Append(timers, PollTimer(inflight[i].task))
              /\ inflight' = RemoveAt(inflight, i)
              /\ UNCHANGED <<promise, result, error, loading, runPc, settleCalls>>

\* GET /get-object answered 2xx
GetResultOk(i, msg) ==
    /\ inflight[i].kind = "get"
    /\ PollHandle(i, GetObjectBody(inflight[i], remote[inflight[i].task], msg))
    /\ UNCHANGED <<taskId, submits, remote>>
    /\ UNCHANGED <<mode, selectedFiles, imagePaths, respShape>>
    /\ UNCHANGED <<guiVars, galVars, vpVars, pyVars>>

\* GET /get-object answered non-2xx: getResult throws, poll()'s catch rejects
GetResultFails(i, text) ==
    /\ inflight[i].kind = "get"
    /\ AfterSettle("rejected", GetResultError(text))
    /\ settleCalls' = settleCalls + 1
    /\ lastPoll' = [kind |-> "threw", state |-> "", message |-> Null, text |-> text]
    /\ inflight' = RemoveAt(inflight, i)
    /\ UNCHANGED <<progress, state, taskId, timers, submits, remote>>
    /\ UNCHANGED <<mode, selectedFiles, imagePaths, respShape>>
    /\ UNCHANGED <<guiVars, galVars, vpVars, pyVars>>

\* time passes: every pending timer comes TickMs closer to firing
Tick ==
    /\ \E j \in 1..Len(timers) : timers[j].left > 0
    /\ timers' = [j \in 1..Len(timers) |->
                    [timers[j] EXCEPT !.left = Max(0, timers[j].left - TickMs)]]
    /\ UNCHANGED <<result, progress, state, loading, error, runPc, taskId,
                   promise, settleCalls, lastPoll, inflight, submits, remote>>
    /\ UNCHANGED <<mode, selectedFiles, imagePaths, respShape>>
    /\ UNCHANGED <<guiVars, galVars, vpVars, pyVars>>

\* a poll scheduled with setInterval: the timer is armed again when it fires
TimerFiresInterval(j) ==
    /\ timers[j].left = 0
    /\ timers' = [timers EXCEPT ![j].left = PollIntervalMs]
    /\ inflight' = Append(inflight, PollRequest(timers[j].task))
    /\ UNCHANGED <<result, progress, state, loading, error, runPc, taskId,
                   promise, settleCalls, lastPoll, submits, remote>>
    /\ UNCHANGED <<mode, selectedFiles, imagePaths, respShape>>
    /\ UNCHANGED <<guiVars, galVars, vpVars, pyVars>>

\* a timer whose delay has passed runs poll(): the next status request is sent
TimerFires(j) ==
    /\ timers[j].left = 0
    /\ timers' = RemoveAt(timers, j)
    /\ inflight' = Append(inflight, PollRequest(timers[j].task))
    /\ UNCHANGED <<result, progress, state, loading, error, runPc, taskId,
                   promise, settleCalls, lastPoll, submits, remote>>
    /\ UNCHANGED <<mode, selectedFiles, imagePaths, respShape>>
    /\ UNCHANGED <<guiVars, galVars, vpVars, pyVars>>

\* the remote service moves a task along its lifecycle
RemoteAdvance(t) ==
    /\ \E s \in NextStates(remote[t]) : remote' = [remote EXCEPT ![t] = s]
    /\ UNCHANGED <<result, progress, state, loading, error, runPc, taskId,
                   promise, settleCalls, lastPoll, inflight, timers, submits>>
    /\ UNCHANGED <<mode, selectedFiles, imagePaths, respShape>>
    /\ UNCHANGED <<guiVars, galVars, vpVars, pyVars>>

-----------------------------------------------------------------------------

InitFrontend ==
    /\ mode = "single"
    /\ selectedFiles = <<>>
    /\ imagePaths = <<>>
    /\ result = Null
    /\ progress = 0
    /\ state = ""
    /\ loading = FALSE
    /\ error = Null
    /\ runPc = "idle"
    /\ taskId = 0
    /\ promise = "none"
    /\ settleCalls = 0
    /\ lastPoll = NoPoll
    /\ inflight = <<>>
    /\ timers = <<>>
    /\ submits = 0
    /\ remote = [t \in 1..MaxSubmits |-> "none"]
    /\ respShape \in {"legacy", "stateful"}


-----------------------------------------------------------------------------
(* The extension modules Archi, ArchiModule and ArchiGui and the workbench *)

HostModules == {"Part", "PartGui"}

\* Base::Interpreter().runString("import <host module>")
ImportHost(loaded, name) ==
    IF name \in loaded THEN [modules |-> loaded, error |-> Null]
    ELSE IF name \in importable
    THEN [modules |-> loaded \cup {name}, error |-> Null]
    ELSE [modules |-> loaded, error |-> Some("No module named " \o name)]

\* PyMOD_INIT_FUNC(Archi) and PyMOD_INIT_FUNC(ArchiModule): import Part, then add the
\* module; an import error leaves the module unloaded
AppModuleInit(loaded, name) ==
    LET r == ImportHost(loaded, "Part")
    IN  IF r.error # Null THEN r
        ELSE [modules |-> r.modules \cup {name}, error |-> Null]

\* runString("import <name>") inside PyMOD_INIT_FUNC(ArchiGui)
Import(loaded, name) ==
    IF name \in loaded THEN [modules |-> loaded, error |-> Null]
    ELSE IF name \in HostModules THEN ImportHost(loaded, name)
    ELSE AppModuleInit(loaded, name)

RECURSIVE RunImports(_, _)
RunImports(loaded, names) ==
    IF names = <<>> THEN [modules |-> loaded, error |-> Null]
    ELSE LET r == Import(loaded, Head(names))
         IN  IF r.error # Null THEN r ELSE RunImports(r.modules, Tail(names))

\* CreateArchiCommands(): every addCommand call in it is commented out
CreateArchiCommands(registered) == registered

\* PyMOD_INIT_FUNC(ArchiGui): the module's initialisation, [modules, error, resources,
\* commands] after it; the calls of CreateArchiCommands() and Workbench::init() are
\* commented out
ArchiGuiInit(loaded) ==
    IF ~hostGui
    THEN [modules |-> loaded,
          error |-> Some("Cannot load Gui module in console application."),
          resources |-> resources, commands |-> commands]
    ELSE LET r == RunImports(loaded, <<"PartGui", "Part", "ArchiModule">>)
         IN  IF r.error # Null
             THEN [modules |-> r.modules, error |-> r.error,
                   resources |-> resources, commands |-> commands]
             ELSE [modules |-> r.modules \cup {"ArchiGui"}, error |-> Null,
                   resources |-> TRUE, commands |-> commands]

ImportArchi ==
    /\ ~crashed
    /\ "Archi" \notin modules
    /\ LET r == AppModuleInit(modules, "Archi")
       IN  modules' = r.modules /\ pyError' = r.error
    /\ UNCHANGED <<hostGui, importable, resources, commands, wbActive, toolBars, menuBar,
                   s_instance>>
    /\ UNCHANGED <<feVars, galVars, vpVars, pyVars>>

ImportArchiModule ==
    /\ ~crashed
    /\ "ArchiModule" \notin modules
    /\ LET r == AppModuleInit(modules, "ArchiModule")
       IN  modules' = r.modules /\ pyError' = r.error
    /\ UNCHANGED <<hostGui, importable, resources, commands, wbActive, toolBars, menuBar,
                   s_instance>>
    /\ UNCHANGED <<feVars, galVars, vpVars, pyVars>>

ImportArchiGui ==
    /\ ~crashed
    /\ "ArchiGui" \notin modules
    /\ LET r == ArchiGuiInit(modules)
       IN  /\ modules' = r.modules
           /\ pyError' = r.error
           /\ resources' = r.resources
           /\ commands' = r.commands
    /\ UNCHANGED <<hostGui, importable, wbActive, toolBars, menuBar,
                   s_instance>>
    /\ UNCHANGED <<feVars, galVars, vpVars, pyVars>>

\* the host's standard tool bars and menus (StdWorkbench::setupToolBars / setupMenuBar)
Item(command, items) == [command |-> command, items |-> items]
StdToolBars == <<Item("File", <<>>), Item("View", <<>>)>>
StdMenuBar == <<Item("&File", <<>>), Item("&Edit", <<>>), Item("&View", <<>>),
                Item("&Windows", <<>>), Item("&Help", <<>>)>>

\* MenuItem::insertItem(before, item): item goes in front of the item named `before`
InsertItem(items, before, item) ==
    LET at == {i \in 1..Len(items) : items[i].command = before}
    IN  IF at = {} THEN Append(items, item)
        ELSE LET i == CHOOSE j \in at : \A k \in at : j <= k
             IN  SubSeq(items, 1, i - 1) \o <<item>> \o SubSeq(items, i, Len(items))

\* Workbench::setupToolBars(): a tool bar "Archi" below the root, holding the two commands
ArchiToolBars ==
    Append(StdToolBars,
           Item("Archi", <<"Archi_ProjectContext", "Archi_FloorPlaner">>))

\* the "AI Tools" item setupMenuBar() builds and attaches to nothing
AiTools ==
    Item("AI Tools", <<"Archi_ProjectContext", "Archi_FloorPlaner", "Archi_Authentication">>)

\* Workbench::setupMenuBar(): an empty, unnamed item is inserted before "&Windows"
ArchiMenuBar == InsertItem(StdMenuBar, "&Windows", Item("", <<>>))

WorkbenchActivated ==
    /\ ~crashed
    /\ "ArchiGui" \in modules
    /\ ~wbActive
    /\ wbActive' = TRUE
    /\ UNCHANGED <<hostGui, importable, modules, pyError, resources, commands,
                   toolBars, menuBar, s_instance>>
    /\ UNCHANGED <<feVars, galVars, vpVars, pyVars>>

WorkbenchDeactivated ==
    /\ ~crashed
    /\ wbActive
    /\ wbActive' = FALSE
    /\ UNCHANGED <<hostGui, importable, modules, pyError, resources, commands,
                   toolBars, menuBar, s_instance>>
    /\ UNCHANGED <<feVars, galVars, vpVars, pyVars>>

SetupToolBars ==
    /\ ~crashed
    /\ "ArchiGui" \in modules
    /\ toolBars' = ArchiToolBars
    /\ UNCHANGED <<hostGui, importable, modules, pyError, resources, commands,
                   wbActive, menuBar, s_instance>>
    /\ UNCHANGED <<feVars, galVars, vpVars, pyVars>>

SetupMenuBar ==
    /\ ~crashed
    /\ "ArchiGui" \in modules
    /\ menuBar' = ArchiMenuBar
    /\ UNCHANGED <<hostGui, importable, modules, pyError, resources, commands,
                   wbActive, toolBars, s_instance>>
    /\ UNCHANGED <<feVars, galVars, vpVars, pyVars>>

\* llround of n / d for n >= 0 and d > 0: halves go away from zero
RoundDiv(n, d) == (2 * n + d) \div (2 * d)

\* the image files the file dialog can return: width and height in pixels, or not an image
ImageFiles ==
    {[file |-> "plan.png", loads |-> TRUE, width |-> 400, height |-> 300],
     [file |-> "tower.jpg", loads |-> TRUE, width |-> 100, height |-> 200],
     [file |-> "notes.txt", loads |-> FALSE, width |-> 0, height |-> 0]}

\* QFileDialog::getOpenFileNames: the user's selection, possibly empty
Selections ==
    {<<>>} \cup {<<f>> : f \in ImageFiles}
           \cup {pair \in ImageFiles \X ImageFiles : pair[1] # pair[2]}

Galleries == {"Sketches", "AI Generations"}

\* ImageStyle m_style{}: the member is value-initialised and never assigned
DefaultImageStyle == [number_of_cols |-> 0, gap |-> 0]

\* ImageStyle style{3, 10, mainLayout, this} in ProjectContextWindow's constructor
ContextImageStyle == [number_of_cols |-> 3, gap |-> 10]

\* ImageData::ImageData(labelText, buttonText, style): one column layout per column;
\* m_style and m_heights are left as they were default-constructed
ImageData(style) ==
    [m_style |-> DefaultImageStyle,
     m_layouts |-> [i \in 1..style.number_of_cols |-> <<>>],
     m_heights |-> <<>>]

\* a gallery that has not been constructed
NoImageData == [m_style |-> DefaultImageStyle, m_layouts |-> <<>>, m_heights |-> <<>>]

\* QPixmap::scaledToWidth(200): the height follows the aspect ratio
ScaledToWidth(img, w) ==
    [file |-> img.file, width |-> w, height |-> RoundDiv(img.height * w, img.width)]

\* std::distance(begin, std::min_element(begin, end)): the first smallest entry, counted
\* from 0; for an empty list min_element returns end, which is begin
MinColumn(heights) ==
    IF heights = <<>> THEN 0
    ELSE (CHOOSE i \in 1..Len(heights) :
              /\ \A k \in 1..Len(heights) : heights[i] <= heights[k]
              /\ \A k \in 1..(i - 1) : heights[k] > heights[i]) - 1

\* the loop of selectAndAddImages over the chosen files.  gal is [m_style, m_layouts,
\* m_heights, crashed]; an index outside a list is undefined behaviour, whose outcome
\* is `outcome`: "abort" (the process ends) or "stray" (the access hits memory that is
\* not the list's, and the loop goes on)
RECURSIVE AddImages(_, _, _)
AddImages(gal, files, outcome) ==
    IF files = <<>> \/ gal.crashed THEN gal
    ELSE IF ~Head(files).loads THEN AddImages(gal, Tail(files), outcome)
    ELSE LET pixmap == ScaledToWidth(Head(files), 200)
             col == MinColumn(gal.m_heights)
         IN  IF col >= Len(gal.m_layouts)
             THEN IF outcome = "abort" THEN [gal EXCEPT !.crashed = TRUE]
                  ELSE AddImages(gal, Tail(files), outcome)
             ELSE LET inserted ==
                          [gal EXCEPT !.m_layouts[col + 1] = <<pixmap>> \o @]
                  IN  IF col >= Len(gal.m_heights)
                      THEN IF outcome = "abort"
                           THEN [inserted EXCEPT !.crashed = TRUE]
                           ELSE AddImages(inserted, Tail(files), outcome)
                      ELSE AddImages(
                               [inserted EXCEPT !.m_heights[col + 1] =
                                                    @ + pixmap.height + gal.m_style.gap],
                               Tail(files), outcome)

\* the labels gallery g holds
LabelCount(g) ==
    LET RECURSIVE Sum(_)
        Sum(i) == IF i = 0 THEN 0 ELSE Len(m_layouts[g][i]) + Sum(i - 1)
    IN  Sum(Len(m_layouts[g]))

\* ProjectContextWindow::instance(parent): the dock window is created on first use,
\* and its constructor builds the two galleries
ContextWindowInstance(parent) ==
    /\ ~crashed
    /\ hostGui
    /\ IF s_instance = Null
       THEN /\ s_instance' = Some([parent |-> parent])
            /\ m_style' = [g \in Galleries |-> ImageData(ContextImageStyle).m_style]
            /\ m_layouts' = [g \in Galleries |-> ImageData(ContextImageStyle).m_layouts]
            /\ m_heights' = [g \in Galleries |-> ImageData(ContextImageStyle).m_heights]
       ELSE UNCHANGED <<s_instance, m_style, m_layouts, m_heights>>
    /\ UNCHANGED <<hostGui, importable, modules, pyError, resources, commands,
                   wbActive, toolBars, menuBar, crashed>>
    /\ UNCHANGED <<feVars, vpVars, pyVars>>

\* ProjectContextWindow::destroyInstance(): the window goes, and its galleries with it
DestroyInstance ==
    /\ ~crashed
    /\ s_instance' = Null
    /\ m_style' = [g \in Galleries |-> NoImageData.m_style]
    /\ m_layouts' = [g \in Galleries |-> NoImageData.m_layouts]
    /\ m_heights' = [g \in Galleries |-> NoImageData.m_heights]
    /\ UNCHANGED <<hostGui, importable, modules, pyError, resources, commands,
                   wbActive, toolBars, menuBar, crashed>>
    /\ UNCHANGED <<feVars, vpVars, pyVars>>

\* ImageData::selectAndAddImages(): the button of gallery g is clicked and the file
\* dialog returns `files`
SelectAndAddImages(g, files, outcome) ==
    /\ ~crashed
    /\ s_instance # Null
    /\ LabelCount(g) + Len(files) <= MaxLabels
    /\ LET gal == AddImages([m_style |-> m_style[g], m_layouts |-> m_layouts[g],
                             m_heights |-> m_heights[g], crashed |-> FALSE],
                            files, outcome)
       IN  /\ m_layouts' = [m_layouts EXCEPT ![g] = gal.m_layouts]
           /\ m_heights' = [m_heights EXCEPT ![g] = gal.m_heights]
           /\ crashed' = gal.crashed
    /\ UNCHANGED <<m_style, guiVars, feVars, vpVars, pyVars>>

-----------------------------------------------------------------------------
(* VideoPlayerWidget: numbers and texts *)

Clamp(x, lo, hi) == IF x < lo THEN lo ELSE IF x > hi THEN hi ELSE x

Pow2(n) == 2 ^ n

\* a single-precision number m / 2^e with 2^23 <= m < 2^24, or zero
FloatZero == [m |-> 0, e |-> 0]
FloatOne == [m |-> Pow2(23), e |-> 23]

\* the exponent e that brings n / d into [2^23, 2^24) when multiplied by 2^e
RECURSIVE Exponent(_, _, _)
Exponent(n, d, e) ==
    IF (n * Pow2(e)) \div d >= Pow2(23) THEN e ELSE Exponent(n, d, e + 1)

\* static_cast<float>(n / double(d)) for 0 <= n and n / d < 2: the single-precision
\* number nearest to n / d, halves to the even mantissa
Float32(n, d) ==
    IF n = 0 THEN FloatZero
    ELSE IF n >= d THEN
        \* 1 <= n / d < 2: the mantissa is n / d * 2^23
        LET q == (n * Pow2(23)) \div d
            r == (n * Pow2(23)) % d
        IN  [m |-> IF 2 * r > d \/ (2 * r = d /\ q % 2 = 1) THEN q + 1 ELSE q, e |-> 23]
    ELSE LET e == Exponent(n, d, 23)
             q == (n * Pow2(e)) \div d
             r == (n * Pow2(e)) % d
             m == IF 2 * r > d \/ (2 * r = d /\ q % 2 = 1) THEN q + 1 ELSE q
         IN  IF m = Pow2(24) THEN [m |-> Pow2(23), e |-> e - 1] ELSE [m |-> m, e |-> e]

\* static_cast<int>(f * 100.0) for a single-precision f >= 0: the product is exact in
\* double precision, the cast truncates
TruncTimes100(f) == (f.m * 100) \div Pow2(f.e)

Pad2(n) == IF n < 10 THEN "0" \o ToString(n) ELSE ToString(n)

\* VideoPlayerWidget::formatTime(ms): "mm:ss"
formatTime(ms) ==
    LET seconds == ms \div 1000
    IN  Pad2(seconds \div 60) \o ":" \o Pad2(seconds % 60)

\* QStringLiteral("%1 / %2").arg(currentTime, totalTime)
TimeText(position, duration) == formatTime(position) \o " / " \o formatTime(duration)

-----------------------------------------------------------------------------
(* VideoPlayerWidget: the widget as a value.  A handler is an operator from the     *)
(* widget before it to the widget after it, so that a signal emitted inside a call  *)
(* runs its slot inside that call, as a direct connection does.                      *)

\* the media the player can be given: what the backend will find when it has loaded it
Durations == {0, 2000}
\* QMediaMetaData::VideoFrameRate of the media, 0: the key is absent
MetaRates == {0, 25}
VideoPaths == {"intro.mp4", "tour.mp4"}
\* the positions playback reports while it advances
PositionSamples == {1000}
\* the arguments of setPosition(ms) and setVolume(volume) from the scripting layer
SeekArguments == {5000}
Volumes == {0 - 1, 29, 100, 101}

\* the widget and the objects it owns
Widget ==
    [m_player |-> m_player, m_audioOutput |-> m_audioOutput,
     m_playPauseButton |-> m_playPauseButton, m_positionSlider |-> m_positionSlider,
     m_timeLabel |-> m_timeLabel, m_isSliderBeingMoved |-> m_isSliderBeingMoved,
     m_seekPreviewAfterLoad |-> m_seekPreviewAfterLoad,
     m_controlsVisible |-> m_controlsVisible, m_autoLoop |-> m_autoLoop,
     m_frameRate |-> m_frameRate, m_totalFrames |-> m_totalFrames,
     calls |-> <<>>, emitted |-> <<>>]

\* what a step of the widget leaves alone
restVars == <<loopsSupported, feVars, guiVars, galVars, pyVars>>

\* the step leaves the widget as w
Becomes(w) ==
    /\ m_player' = w.m_player
    /\ m_audioOutput' = w.m_audioOutput
    /\ m_playPauseButton' = w.m_playPauseButton
    /\ m_positionSlider' = w.m_positionSlider
    /\ m_timeLabel' = w.m_timeLabel
    /\ m_isSliderBeingMoved' = w.m_isSliderBeingMoved
    /\ m_seekPreviewAfterLoad' = w.m_seekPreviewAfterLoad
    /\ m_controlsVisible' = w.m_controlsVisible
    /\ m_autoLoop' = w.m_autoLoop
    /\ m_frameRate' = w.m_frameRate
    /\ m_totalFrames' = w.m_totalFrames
    /\ calls' = w.calls
    /\ emitted' = w.emitted

SetPositionCall(p) == "setPosition(" \o ToString(p) \o ")"
PositionChangedSignal(p) == "positionChanged(" \o ToString(p) \o ")"
DurationChangedSignal(d) == "durationChanged(" \o ToString(d) \o ")"

\* VideoPlayerWidget::frameIndexToPosition
frameIndexToPosition(w, frameIndex) ==
    IF w.m_frameRate <= 0 THEN frameIndex
    ELSE RoundDiv(frameIndex * 1000, w.m_frameRate)

\* VideoPlayerWidget::positionToFrameIndex
positionToFrameIndex(w, position) ==
    IF w.m_frameRate <= 0 THEN position
    ELSE Clamp(RoundDiv(position * w.m_frameRate, 1000), 0, Max(0, w.m_totalFrames - 1))

DefaultFrameRate == 30

\* VideoPlayerWidget::updateFrameMapping(duration); metaRate is the frame rate in the
\* media's meta data, 0 when it has none
updateFrameMapping(w, duration, metaRate) ==
    LET rate == IF metaRate <= 0 THEN DefaultFrameRate ELSE metaRate
    IN  [w EXCEPT !.m_frameRate = rate,
                  !.m_totalFrames = IF duration > 0
                                    THEN Max(1, RoundDiv(duration * rate, 1000))
                                    ELSE 0]

previewOffsetMs == 120
endOffsetMs == 200

\* VideoPlayerWidget::previewFramePosition
previewFramePosition(w) ==
    IF w.m_frameRate > 0 /\ w.m_totalFrames > 0
    THEN frameIndexToPosition(w,
             Clamp(RoundDiv(previewOffsetMs * w.m_frameRate, 1000), 0,
                   Max(0, w.m_totalFrames - 1)))
    ELSE IF w.m_player.duration <= 0 THEN previewOffsetMs
    ELSE IF w.m_player.duration <= previewOffsetMs THEN Max(0, w.m_player.duration \div 4)
    ELSE previewOffsetMs

\* an endFramePosition that steps back from the last frame without looking at where
\* the last frame is
endFramePositionUnguarded(w) ==
    IF w.m_frameRate > 0 /\ w.m_totalFrames > 0
    THEN frameIndexToPosition(w, Max(0, w.m_totalFrames - 1)) - endOffsetMs
    ELSE IF w.m_player.duration <= 0 THEN 0
    ELSE w.m_player.duration - endOffsetMs

\* VideoPlayerWidget::endFramePosition
endFramePosition(w) ==
    IF w.m_frameRate > 0 /\ w.m_totalFrames > 0
    THEN LET pos == frameIndexToPosition(w, Max(0, w.m_totalFrames - 1))
         IN  IF pos > endOffsetMs THEN pos - endOffsetMs ELSE pos
    ELSE IF w.m_player.duration <= 0 THEN 0
    ELSE IF w.m_player.duration <= endOffsetMs THEN Max(0, w.m_player.duration - 1)
    ELSE w.m_player.duration - endOffsetMs

\* QSlider::setValue(v): the value is kept inside the range; `written` keeps v itself
SliderSetValue(slider, v) ==
    [slider EXCEPT !.value = Clamp(v, 0, slider.maximum), !.written = v]

\* QSlider::setRange(0, maximum): the value is brought inside the new range
SliderSetRange(slider, maximum) ==
    [slider EXCEPT !.maximum = maximum, !.value = Clamp(@, 0, maximum)]

\* an onPlaybackStateChanged that shows the Pause icon for every state but Stopped
onPlaybackStateChangedPaused(w, playbackState) ==
    IF playbackState # "StoppedState"
    THEN [w EXCEPT !.m_playPauseButton = [icon |-> "SP_MediaPause", toolTip |-> "Pause"],
                   !.emitted = Append(@, "playbackStateChanged(true)")]
    ELSE [w EXCEPT !.m_playPauseButton = [icon |-> "SP_MediaPlay", toolTip |-> "Play"],
                   !.emitted = Append(@, "playbackStateChanged(false)")]

\* VideoPlayerWidget::onPlaybackStateChanged(state)
onPlaybackStateChanged(w, playbackState) ==
    IF playbackState = "PlayingState"
    THEN [w EXCEPT !.m_playPauseButton = [icon |-> "SP_MediaPause", toolTip |-> "Pause"],
                   !.emitted = Append(@, "playbackStateChanged(true)")]
    ELSE [w EXCEPT !.m_playPauseButton = [icon |-> "SP_MediaPlay", toolTip |-> "Play"],
                   !.emitted = Append(@, "playbackStateChanged(false)")]

\* an onPositionChanged that moves the slider whether or not it is being dragged
onPositionChangedAlways(w, position) ==
    [w EXCEPT !.m_positionSlider = SliderSetValue(@, positionToFrameIndex(w, position)),
              !.m_timeLabel = TimeText(position, w.m_player.duration),
              !.emitted = Append(@, PositionChangedSignal(position))]

\* VideoPlayerWidget::onPositionChanged(position)
onPositionChanged(w, position) ==
    [w EXCEPT !.m_positionSlider =
                  IF ~w.m_isSliderBeingMoved
                  THEN SliderSetValue(@, positionToFrameIndex(w, position))
                  ELSE @,
              !.m_timeLabel = TimeText(position, w.m_player.duration),
              !.emitted = Append(@, PositionChangedSignal(position))]

\* VideoPlayerWidget::onDurationChanged(duration)
onDurationChanged(w, duration, metaRate) ==
    LET mapped == updateFrameMapping(w, duration, metaRate)
    IN  [mapped EXCEPT !.m_positionSlider =
                           SliderSetRange(@, Max(0, mapped.m_totalFrames - 1)),
                       !.emitted = Append(@, DurationChangedSignal(duration))]

-----------------------------------------------------------------------------
(* QMediaPlayer as the widget uses it.  The media status follows the playback       *)
(* state as the class documents it: LoadedMedia and EndOfMedia go with the Stopped  *)
(* state, BufferedMedia with playing or paused media, and while the media is being  *)
(* loaded the player may be in any state.                                             *)

Seekable == {"LoadedMedia", "BufferedMedia", "EndOfMedia"}

\* the playbackStateChanged signal: emitted when the state changes
PlayerStateChanged(w, playbackState) ==
    IF w.m_player.playbackState = playbackState THEN w
    ELSE onPlaybackStateChanged([w EXCEPT !.m_player.playbackState = playbackState],
                                playbackState)

\* the positionChanged signal: emitted when the position changes
PlayerPositionChanged(w, position) ==
    IF w.m_player.position = position THEN w
    ELSE onPositionChanged([w EXCEPT !.m_player.position = position], position)

\* m_player->setPosition(position): ignored unless media is loaded, kept inside the media
PlayerSetPosition(w, position) ==
    LET logged == [w EXCEPT !.calls = Append(@, SetPositionCall(position))]
    IN  IF w.m_player.mediaStatus \in Seekable
        THEN PlayerPositionChanged(logged, Clamp(position, 0, w.m_player.duration))
        ELSE logged

\* playback of ended media starts again from the beginning
PlayerRewound(w) ==
    IF w.m_player.mediaStatus = "EndOfMedia" THEN PlayerPositionChanged(w, 0) ELSE w

\* m_player->play()
PlayerPlay(w) ==
    LET logged == [w EXCEPT !.calls = Append(@, "play()")]
    IN  IF w.m_player.mediaStatus \in {"NoMedia", "InvalidMedia"} THEN logged
        ELSE PlayerStateChanged(
                 [PlayerRewound(logged) EXCEPT
                      !.m_player.mediaStatus =
                          IF @ = "LoadingMedia" THEN @ ELSE "BufferedMedia"],
                 "PlayingState")

\* m_player->pause()
PlayerPause(w) ==
    LET logged == [w EXCEPT !.calls = Append(@, "pause()")]
    IN  IF w.m_player.mediaStatus \in {"NoMedia", "InvalidMedia"} THEN logged
        ELSE PlayerStateChanged(
                 [PlayerRewound(logged) EXCEPT
                      !.m_player.mediaStatus =
                          IF @ = "LoadingMedia" THEN @ ELSE "BufferedMedia"],
                 "PausedState")

\* VideoPlayerWidget::showInitialPreviewFrame
showInitialPreviewFrame(w) == PlayerSetPosition(w, previewFramePosition(w))

\* VideoPlayerWidget::showEndPreviewFrame
showEndPreviewFrame(w) == PlayerSetPosition(w, endFramePosition(w))

\* an onMediaStatusChanged that seeks to the preview frame on every LoadedMedia
onMediaStatusChangedSeeking(w, mediaStatus) ==
    IF mediaStatus = "LoadedMedia"
    THEN LET shown == [showInitialPreviewFrame(w) EXCEPT !.m_seekPreviewAfterLoad = FALSE]
         IN  IF shown.m_player.playbackState # "PlayingState"
             THEN PlayerPause(PlayerPlay(shown))
             ELSE shown
    ELSE w

\* an onMediaStatusChanged that leaves media paused by the user as it is
onMediaStatusChangedStopped(w, mediaStatus) ==
    IF mediaStatus = "LoadedMedia"
    THEN LET shown == IF w.m_seekPreviewAfterLoad
                      THEN [showInitialPreviewFrame(w) EXCEPT
                                !.m_seekPreviewAfterLoad = FALSE]
                      ELSE w
         IN  IF shown.m_player.playbackState = "StoppedState"
             THEN PlayerPlay(shown)
             ELSE shown
    ELSE w

\* an onMediaStatusChanged that always starts again at the end when looping
onMediaStatusChangedRestart(w, mediaStatus) ==
    IF mediaStatus = "EndOfMedia"
    THEN IF w.m_autoLoop THEN PlayerPlay(PlayerSetPosition(w, 0))
         ELSE showEndPreviewFrame(w)
    ELSE w

\* VideoPlayerWidget::onMediaStatusChanged(status)
onMediaStatusChanged(w, mediaStatus) ==
    IF mediaStatus = "LoadedMedia"
    THEN LET shown == IF w.m_seekPreviewAfterLoad
                      THEN [showInitialPreviewFrame(w) EXCEPT
                                !.m_seekPreviewAfterLoad = FALSE]
                      ELSE w
         IN  IF shown.m_player.playbackState # "PlayingState"
             THEN PlayerPause(PlayerPlay(shown))
             ELSE shown
    ELSE IF mediaStatus = "EndOfMedia"
    THEN IF w.m_autoLoop
         THEN LET wasPlaying == w.m_player.playbackState = "PlayingState"
                  rewound == PlayerSetPosition(w, 0)
              IN  IF wasPlaying THEN PlayerPlay(rewound) ELSE rewound
         ELSE showEndPreviewFrame(w)
    ELSE w

\* the mediaStatusChanged signal: emitted when the status changes
PlayerStatusChanged(w, mediaStatus) ==
    IF w.m_player.mediaStatus = mediaStatus THEN w
    ELSE onMediaStatusChanged([w EXCEPT !.m_player.mediaStatus = mediaStatus],
                              mediaStatus)

\* what stopping does to the player: back to the beginning, Stopped, and media that was
\* playing or paused is LoadedMedia again
PlayerStopped(w) ==
    IF w.m_player.mediaStatus \notin Seekable
    THEN PlayerStateChanged(w, "StoppedState")
    ELSE LET halted == PlayerStateChanged(PlayerPositionChanged(w, 0), "StoppedState")
         IN  IF halted.m_player.mediaStatus = "BufferedMedia"
             THEN PlayerStatusChanged(halted, "LoadedMedia")
             ELSE halted

\* m_player->stop()
PlayerStop(w) == PlayerStopped([w EXCEPT !.calls = Append(@, "stop()")])

\* m_player->setSource(url): the player stops; the same source again changes nothing
\* more; a new one is loaded in the background.  `resets`: the player reports duration 0
\* at once, rather than keeping the old duration until the new one is known
PlayerSetSource(w, path, resets) ==
    LET stopped == PlayerStopped([w EXCEPT !.calls = Append(@, "setSource(" \o path \o ")")])
    IN  IF stopped.m_player.source = path THEN stopped
        ELSE LET opened == PlayerPositionChanged(
                                [stopped EXCEPT !.m_player.source = path,
                                                !.m_player.mediaStatus = "LoadingMedia"],
                                0)
             IN  IF resets /\ opened.m_player.duration # 0
                 THEN onDurationChanged([opened EXCEPT !.m_player.duration = 0], 0, 0)
                 ELSE opened

-----------------------------------------------------------------------------
(* VideoPlayerWidget: the public functions and the slots of the controls *)

\* VideoPlayerWidget::loadVideo(videoPath)
loadVideo(w, videoPath, resets) ==
    [PlayerSetPosition(PlayerSetSource(w, videoPath, resets), 0) EXCEPT
         !.m_seekPreviewAfterLoad = TRUE,
         !.m_frameRate = 0,
         !.m_totalFrames = 0]

play(w) == PlayerPlay(w)
pause(w) == PlayerPause(w)

\* VideoPlayerWidget::stop(): stop the player, then show the preview frame
stop(w) == showInitialPreviewFrame(PlayerStop(w))

setPosition(w, position) == PlayerSetPosition(w, position)

\* QAudioOutput::setVolume(float): the volume is kept inside [0, 1]
AudioSetVolume(w, f) ==
    [w EXCEPT !.m_audioOutput.volume = IF f.m > Pow2(f.e) THEN FloatOne ELSE f]

\* a setVolume that takes its argument for the fraction itself
setVolumeAsFraction(w, volume) == AudioSetVolume(w, Float32(Clamp(volume, 0, 1), 1))

\* VideoPlayerWidget::setVolume(volume)
setVolume(w, volume) == AudioSetVolume(w, Float32(Clamp(volume, 0, 100), 100))

\* VideoPlayerWidget::volume()
volume == TruncTimes100(m_audioOutput.volume)

\* VideoPlayerWidget::isPlaying()
isPlaying == m_player.playbackState = "PlayingState"

setControlsVisible(w, visible) == [w EXCEPT !.m_controlsVisible = visible]

Infinite == 0 - 1

\* VideoPlayerWidget::setAutoLoop(loop); setLoops exists from Qt 6.4 on
setAutoLoop(w, loop) ==
    LET kept == [w EXCEPT !.m_autoLoop = loop]
    IN  IF loopsSupported
        THEN [kept EXCEPT !.m_player.loops = IF loop THEN Infinite ELSE 1,
                          !.calls = Append(@, IF loop THEN "setLoops(Infinite)"
                                              ELSE "setLoops(1)")]
        ELSE kept

\* VideoPlayerWidget::onPlayPauseClicked
onPlayPauseClicked(w) ==
    IF w.m_player.playbackState = "PlayingState" THEN pause(w) ELSE play(w)

\* VideoPlayerWidget::onStopClicked
onStopClicked(w) == stop(w)

\* the sliderPressed lambda of setupUi
sliderPressed(w) ==
    PlayerSetPosition([w EXCEPT !.m_isSliderBeingMoved = TRUE],
                      frameIndexToPosition(w, w.m_positionSlider.value))

\* the sliderReleased lambda of setupUi
sliderReleased(w) ==
    PlayerSetPosition([w EXCEPT !.m_isSliderBeingMoved = FALSE],
                      frameIndexToPosition(w, w.m_positionSlider.value))

\* VideoPlayerWidget::onSliderMoved(position)
onSliderMoved(w, frameIndex) ==
    LET targetPosition == frameIndexToPosition(w, frameIndex)
        labelled == [w EXCEPT !.m_timeLabel =
                                  TimeText(targetPosition, w.m_player.duration)]
    IN  IF w.m_isSliderBeingMoved THEN PlayerSetPosition(labelled, targetPosition)
        ELSE labelled

-----------------------------------------------------------------------------
(* VideoPlayerWidget: the steps.  Each is one call from the scripting layer, one    *)
(* event of a control, or one event of the player.                                   *)

LoadVideo(path, resets) ==
    /\ Becomes(loadVideo(Widget, path, resets))
    /\ UNCHANGED restVars

Play ==
    /\ Becomes(play(Widget))
    /\ UNCHANGED restVars

Pause ==
    /\ Becomes(pause(Widget))
    /\ UNCHANGED restVars

Stop ==
    /\ Becomes(stop(Widget))
    /\ UNCHANGED restVars

SetPosition(position) ==
    /\ Becomes(setPosition(Widget, position))
    /\ UNCHANGED restVars

SetVolume(v) ==
    /\ Becomes(setVolume(Widget, v))
    /\ UNCHANGED restVars

SetControlsVisible(visible) ==
    /\ Becomes(setControlsVisible(Widget, visible))
    /\ UNCHANGED restVars

SetAutoLoop(loop) ==
    /\ Becomes(setAutoLoop(Widget, loop))
    /\ UNCHANGED restVars

OnPlayPauseClicked ==
    /\ m_controlsVisible
    /\ Becomes(onPlayPauseClicked(Widget))
    /\ UNCHANGED restVars

OnStopClicked ==
    /\ m_controlsVisible
    /\ Becomes(onStopClicked(Widget))
    /\ UNCHANGED restVars

\* the user presses the slider's handle
SliderPressed ==
    /\ m_controlsVisible
    /\ ~m_positionSlider.down
    /\ Becomes(sliderPressed([Widget EXCEPT !.m_positionSlider.down = TRUE]))
    /\ UNCHANGED restVars

\* the user lets the handle go
SliderReleased ==
    /\ m_positionSlider.down
    /\ Becomes(sliderReleased([Widget EXCEPT !.m_positionSlider.down = FALSE]))
    /\ UNCHANGED restVars

\* the slider values a drag can reach: the second frame and the end of the range
DragTargets == {1, m_positionSlider.maximum}

\* the user drags the handle to frameIndex: the slider takes the value and emits
\* sliderMoved, which it does only while it is held down
SliderMoved(frameIndex) ==
    /\ m_positionSlider.down
    /\ frameIndex <= m_positionSlider.maximum
    /\ frameIndex # m_positionSlider.value
    /\ Becomes(onSliderMoved([Widget EXCEPT !.m_positionSlider.value = frameIndex],
                             frameIndex))
    /\ UNCHANGED restVars

\* the player learns the duration of the media it is loading, or has loaded without
\* knowing it, and emits durationChanged
DurationChanged(duration, metaRate) ==
    /\ \/ m_player.mediaStatus = "LoadingMedia"
       \/ m_player.mediaStatus \in {"LoadedMedia", "BufferedMedia"} /\ m_player.duration = 0
    /\ duration # m_player.duration
    /\ Becomes(onDurationChanged([Widget EXCEPT !.m_player.duration = duration],
                                 duration, metaRate))
    /\ UNCHANGED restVars

\* the media has been loaded: the status becomes LoadedMedia, and BufferedMedia once
\* the media is playing or paused
MediaLoaded ==
    /\ m_player.mediaStatus = "LoadingMedia"
    /\ LET handled == PlayerStatusChanged(Widget, "LoadedMedia")
       IN  Becomes([handled EXCEPT !.m_player.mediaStatus =
                                       IF handled.m_player.playbackState = "StoppedState"
                                       THEN @ ELSE "BufferedMedia"])
    /\ UNCHANGED restVars

\* playback advances to position
PositionAdvances(position) ==
    /\ m_player.playbackState = "PlayingState"
    /\ m_player.mediaStatus = "BufferedMedia"
    /\ m_player.position < position
    /\ position <= m_player.duration
    /\ Becomes(PlayerPositionChanged(Widget, position))
    /\ UNCHANGED restVars

\* playback reaches the end of the media, which it does not when the player loops for
\* ever: the position is the duration, the state becomes Stopped and the status
\* EndOfMedia, the two signals in either order
MediaEnds(stateFirst) ==
    /\ m_player.playbackState = "PlayingState"
    /\ m_player.mediaStatus = "BufferedMedia"
    /\ m_player.loops # Infinite
    /\ LET atEnd == PlayerPositionChanged(Widget, m_player.duration)
       IN  IF stateFirst
           THEN Becomes(PlayerStatusChanged(PlayerStateChanged(atEnd, "StoppedState"),
                                            "EndOfMedia"))
           ELSE LET handled == PlayerStatusChanged(atEnd, "EndOfMedia")
                IN  Becomes(IF handled.m_player.mediaStatus = "EndOfMedia"
                            THEN PlayerStateChanged(handled, "StoppedState")
                            ELSE handled)
    /\ UNCHANGED restVars

\* VideoPlayerWidget::VideoPlayerWidget: the widget after construction
InitPlayer ==
    /\ m_player = [playbackState |-> "StoppedState", mediaStatus |-> "NoMedia",
                   position |-> 0, duration |-> 0, source |-> "", loops |-> 1]
    /\ m_audioOutput = [volume |-> Float32(7, 10)]
    /\ m_playPauseButton = [icon |-> "SP_MediaPlay", toolTip |-> "Play"]
    /\ m_positionSlider = [maximum |-> 0, value |-> 0, written |-> 0, down |-> FALSE]
    /\ m_timeLabel = "00:00 / 00:00"
    /\ m_isSliderBeingMoved = FALSE
    /\ m_seekPreviewAfterLoad = FALSE
    /\ m_controlsVisible = TRUE
    /\ m_autoLoop = FALSE
    /\ m_frameRate = 0
    /\ m_totalFrames = 0
    /\ loopsSupported \in BOOLEAN
    /\ calls = <<>>
    /\ emitted = <<>>

-----------------------------------------------------------------------------
(* VideoPlayerWidgetPy: the Python object around a VideoPlayerWidget *)

\* the methods of the wrapper that call a member of the widget
WidgetMethods == {"play", "position"}

\* a slot before anything is made in it
NoWrapper ==
    [wrapper |-> "none", m_widget |-> Null, m_ownWidget |-> FALSE, widget |-> "none",
     pointerOut |-> FALSE, parent |-> FALSE, lastCall |-> "",
     deletedByWrapper |-> 0, deletedByParent |-> 0, usedAfterDelete |-> FALSE]

\* VideoPlayerWidgetPy::VideoPlayerWidgetPy(widget) in slot i: `given` is the widget
\* argument, Null for nullptr; without one the wrapper makes the widget and owns it
VideoPlayerWidgetPy(i, given) ==
    [NoWrapper EXCEPT !.wrapper = "alive",
                      !.m_widget = IF given = Null THEN Some(i) ELSE given,
                      !.m_ownWidget = (given = Null),
                      !.widget = "alive"]

\* delete of the widget o points to: its destructor runs and takes it from its parent
DeleteWidget(o) == [o EXCEPT !.widget = "destroyed", !.parent = FALSE]

\* VideoPlayerWidgetPy::~VideoPlayerWidgetPy
DestroyWrapper(o) ==
    LET gone == [o EXCEPT !.wrapper = "destroyed"]
    IN  IF o.m_ownWidget /\ o.m_widget # Null
        THEN [DeleteWidget(gone) EXCEPT !.deletedByWrapper = @ + 1]
        ELSE gone

\* a method of the wrapper that guards on m_widget and then calls the widget's member
CallWidget(o, method) ==
    IF o.m_widget # Null
    THEN [o EXCEPT !.lastCall = method,
                   !.usedAfterDelete = @ \/ o.widget = "destroyed"]
    ELSE o

\* VideoPlayerWidgetPy::getWidget: the pointer as an integer, for shiboken's wrapInstance
getWidget(o) == IF o.m_widget # Null THEN [o EXCEPT !.pointerOut = TRUE] ELSE o

\* the step is undefined behaviour of the build: it touches a widget that is destroyed
TouchesDestroyed(o, after) ==
    \/ after.usedAfterDelete /\ ~o.usedAfterDelete
    \/ after.deletedByWrapper > o.deletedByWrapper /\ o.widget = "destroyed"

\* what an undefined step leaves: the process ends ("abort") or goes on ("stray")
AfterStep(i, after, outcome) ==
    /\ wrappers' = [wrappers EXCEPT ![i] = after]
    /\ crashed' = (TouchesDestroyed(wrappers[i], after) /\ outcome = "abort")
    /\ UNCHANGED <<m_style, m_layouts, m_heights, feVars, guiVars, vpVars>>

\* PyMake: the interpreter calls ArchiGui.VideoPlayerWidget()
PyMake(i) ==
    /\ ~crashed
    /\ wrappers[i].wrapper = "none"
    /\ AfterStep(i, VideoPlayerWidgetPy(i, Null), "stray")

\* the host wraps a widget of its own
WrapWidget(i) ==
    /\ ~crashed
    /\ wrappers[i].wrapper = "none"
    /\ AfterStep(i, VideoPlayerWidgetPy(i, Some(i)), "stray")

GetWidget(i) ==
    /\ ~crashed
    /\ wrappers[i].wrapper = "alive"
    /\ AfterStep(i, getWidget(wrappers[i]), "stray")

\* the script wraps the pointer and puts the widget into a layout or a parent widget
SetParent(i) ==
    /\ ~crashed
    /\ wrappers[i].pointerOut
    /\ wrappers[i].widget = "alive"
    /\ ~wrappers[i].parent
    /\ AfterStep(i, [wrappers[i] EXCEPT !.parent = TRUE], "stray")

\* the parent is destroyed and deletes its children
ParentDestroyed(i) ==
    /\ ~crashed
    /\ wrappers[i].parent
    /\ AfterStep(i, [DeleteWidget(wrappers[i]) EXCEPT !.deletedByParent = @ + 1], "stray")

\* the script calls a method of the wrapper
CallMethod(i, method, outcome) ==
    /\ ~crashed
    /\ wrappers[i].wrapper = "alive"
    /\ AfterStep(i, CallWidget(wrappers[i], method), outcome)

\* the interpreter drops the last reference to the wrapper
WrapperDestroyed(i, outcome) ==
    /\ ~crashed
    /\ wrappers[i].wrapper = "alive"
    /\ AfterStep(i, DestroyWrapper(wrappers[i]), outcome)

InitWrappers == wrappers = [i \in 1..MaxWrappers |-> NoWrapper]

-----------------------------------------------------------------------------
(* Specifications *)

InitGui ==
    /\ hostGui \in BOOLEAN
    /\ importable \in SUBSET HostModules
    /\ modules = {}
    /\ pyError = Null
    /\ resources = FALSE
    /\ commands = {}
    /\ wbActive = FALSE
    /\ toolBars = <<>>
    /\ menuBar = <<>>
    /\ s_instance = Null
    /\ m_style = [g \in Galleries |-> NoImageData.m_style]
    /\ m_layouts = [g \in Galleries |-> NoImageData.m_layouts]
    /\ m_heights = [g \in Galleries |-> NoImageData.m_heights]
    /\ crashed = FALSE

\* the state after construction: the page is rendered, nothing is loaded in the host
Init == InitFrontend /\ InitGui /\ InitPlayer /\ InitWrappers

NextFrontend ==
    \/ \E m \in {"single", "multi"} : SetMode(m)
    \/ \E files \in Uploads(mode) : HandleFileUpload(files)
    \/ HandleSubmit
    \/ \E i \in 1..Len(inflight) : SubmitOk(i)
    \/ \E i \in 1..Len(inflight), text \in ErrorBodies : SubmitFails(i, text)
    \/ \E i \in 1..Len(inflight), msg \in {Null, Some("")} \cup {Some(m) : m \in FailMessages} :
          GetResultOk(i, msg)
    \/ \E i \in 1..Len(inflight), text \in ErrorBodies : GetResultFails(i, text)
    \/ Tick
    \/ \E j \in 1..Len(timers) : TimerFires(j)
    \/ \E t \in 1..MaxSubmits : RemoteAdvance(t)

NextGui ==
    \/ ImportArchi
    \/ ImportArchiModule
    \/ ImportArchiGui
    \/ WorkbenchActivated
    \/ WorkbenchDeactivated
    \/ SetupToolBars
    \/ SetupMenuBar
    \/ \E parent \in {"none", "MainWindow"} : ContextWindowInstance(parent)
    \/ DestroyInstance
    \/ \E g \in Galleries, files \in Selections, outcome \in {"abort", "stray"} :
          SelectAndAddImages(g, files, outcome)

NextPlayer ==
    \/ \E path \in VideoPaths, resets \in BOOLEAN : LoadVideo(path, resets)
    \/ Play
    \/ Pause
    \/ Stop
    \/ \E position \in SeekArguments : SetPosition(position)
    \/ \E loop \in BOOLEAN : SetAutoLoop(loop)
    \/ OnPlayPauseClicked
    \/ OnStopClicked
    \/ \E duration \in Durations, metaRate \in MetaRates : DurationChanged(duration, metaRate)
    \/ MediaLoaded
    \/ \E position \in PositionSamples : PositionAdvances(position)
    \/ \E stateFirst \in BOOLEAN : MediaEnds(stateFirst)

NextSlider ==
    \/ \E path \in VideoPaths, resets \in BOOLEAN : LoadVideo(path, resets)
    \/ \E duration \in Durations, metaRate \in MetaRates : DurationChanged(duration, metaRate)
    \/ MediaLoaded
    \/ OnPlayPauseClicked
    \/ \E position \in PositionSamples : PositionAdvances(position)
    \/ \E position \in SeekArguments : SetPosition(position)
    \/ SliderPressed
    \/ SliderReleased
    \/ \E frameIndex \in DragTargets : SliderMoved(frameIndex)

NextSettings ==
    \/ \E v \in Volumes : SetVolume(v)
    \/ \E visible \in BOOLEAN : SetControlsVisible(visible)
    \/ \E loop \in BOOLEAN : SetAutoLoop(loop)
    \/ \E path \in VideoPaths, resets \in BOOLEAN : LoadVideo(path, resets)
    \/ \E duration \in Durations, metaRate \in MetaRates : DurationChanged(duration, metaRate)
    \/ MediaLoaded
    \/ OnPlayPauseClicked
    \/ OnStopClicked
    \/ \E position \in PositionSamples : PositionAdvances(position)

\* the durations the player reports: none, shorter than the preview offset, between
\* the two offsets, and longer than both
MappingDurations == {0, 100, 150, 1500}

\* the frame rates in the media's meta data: none, one frame a second, 25, and more
\* frames than milliseconds
MappingRates == {0, 1, 25, 2000}

\* the durations of the media that is dragged: none, and 150 ms
DragDurations == {0, 150}

NextMapping ==
    \/ \E path \in VideoPaths, resets \in BOOLEAN : LoadVideo(path, resets)
    \/ \E duration \in DragDurations, metaRate \in MappingRates :
          DurationChanged(duration, metaRate)
    \/ MediaLoaded
    \/ SliderPressed
    \/ SliderReleased
    \/ \E frameIndex \in DragTargets : SliderMoved(frameIndex)

NextPreview ==
    \/ \E path \in VideoPaths, resets \in BOOLEAN : LoadVideo(path, resets)
    \/ \E duration \in MappingDurations, metaRate \in MappingRates :
          DurationChanged(duration, metaRate)
    \/ MediaLoaded
    \/ OnPlayPauseClicked
    \/ Stop
    \/ \E stateFirst \in BOOLEAN : MediaEnds(stateFirst)

NextWrapper ==
    \/ \E i \in 1..MaxWrappers : PyMake(i)
    \/ \E i \in 1..MaxWrappers : WrapWidget(i)
    \/ \E i \in 1..MaxWrappers : GetWidget(i)
    \/ \E i \in 1..MaxWrappers : SetParent(i)
    \/ \E i \in 1..MaxWrappers : ParentDestroyed(i)
    \/ \E i \in 1..MaxWrappers, method \in WidgetMethods, outcome \in {"abort", "stray"} :
          CallMethod(i, method, outcome)
    \/ \E i \in 1..MaxWrappers, outcome \in {"abort", "stray"} : WrapperDestroyed(i, outcome)

\* the front end against the remote service; the host does not move
InitSpec == Init /\ hostGui /\ importable = HostModules /\ loopsSupported
Spec == InitSpec /\ [][NextFrontend]_vars

\* the host loading the modules and setting up the workbench; the page does not move
InitSpecGui == Init /\ respShape = "stateful" /\ loopsSupported
SpecGui == InitSpecGui /\ [][NextGui]_vars

\* the video player widget: loading and playback, driven by the scripting layer, the
\* buttons and the player; the page and the host do not move
InitSpecPlayer == Init /\ respShape = "stateful" /\ hostGui /\ importable = HostModules
SpecPlayer == InitSpecPlayer /\ [][NextPlayer]_vars

\* the position slider dragged by the user while media is loaded and played
SpecSlider == InitSpecPlayer /\ [][NextSlider]_vars

\* the widget's settings (volume, controls, looping) changed while media is loaded and
\* played from the play/pause and stop buttons
SpecSettings == InitSpecPlayer /\ [][NextSettings]_vars

\* media of short and long durations and of low and high frame rates, loaded and
\* dragged from frame to frame
InitSpecMapping == InitSpecPlayer /\ loopsSupported
SpecMapping == InitSpecMapping /\ [][NextMapping]_vars

\* the same media loaded, stopped and played to its end
SpecPreview == InitSpecMapping /\ [][NextPreview]_vars

\* the interpreter making, using and dropping wrappers while Qt parents come and go
SpecWrapper == InitSpecMapping /\ [][NextWrapper]_vars

\* the front end under a running event loop and a network that answers: time passes,
\* due timers fire, and every request sent is eventually answered 2xx unless it is
\* answered non-2xx first
FairSpec ==
    /\ InitSpec
    /\ [][NextFrontend]_vars
    /\ WF_vars(Tick)
    /\ WF_vars(\E j \in 1..Len(timers) : TimerFires(j))
    /\ WF_vars(\E i \in 1..Len(inflight) : SubmitOk(i))
    /\ WF_vars(\E i \in 1..Len(inflight) : GetResultOk(i, Null))

-----------------------------------------------------------------------------
(* Properties *)

\* the status requests among the requests q
GetCount(q) == Cardinality({i \in 1..Len(q) : q[i].kind = "get"})

\* this step handles the answer to a status request
Answered == GetCount(inflight') < GetCount(inflight)

\* C1: pollResult settles at most once, and each settling is called for: it resolves
\* only after an answer whose state is 'success', it rejects only after an answer whose
\* state is 'failed' or after a getResult call that threw; after any other answer it
\* does not settle and schedules exactly one further poll, 2000 ms later.
C1_PollSettles ==
    [][ /\ settleCalls' <= 1
        /\ (promise' \in {"resolved", "rejected"} <=> settleCalls' = 1)
        /\ (promise' = "resolved" =>
               lastPoll'.kind = "ok" /\ lastPoll'.state = "success")
        /\ (promise' = "rejected" =>
               \/ lastPoll'.kind = "threw"
               \/ lastPoll'.kind = "ok" /\ lastPoll'.state = "failed")
        /\ (Answered /\ lastPoll'.kind = "threw" => promise' = "rejected")
        /\ (Answered /\ lastPoll'.kind = "ok" /\ lastPoll'.state = "success" =>
               promise' = "resolved")
        /\ (Answered /\ lastPoll'.kind = "ok" /\ lastPoll'.state = "failed" =>
               promise' = "rejected")
        /\ (Answered /\ lastPoll'.kind = "ok" /\ lastPoll'.state \notin Terminal =>
               /\ promise = "pending" /\ promise' = "pending"
               /\ settleCalls' = settleCalls
               /\ GetCount(inflight') = GetCount(inflight) - 1
               /\ timers' = Append(timers, [task |-> taskId, left |-> PollIntervalMs]))
      ]_vars

\* C1 witness: a run whose pollResult promise has been resolved with the final answer
C1_Witness ==
    /\ promise = "resolved"
    /\ settleCalls = 1
    /\ result # Null
    /\ lastPoll.state = "success"

\* the last answer of the run reported a failure: a non-2xx answer or state 'failed'
Failed ==
    \/ lastPoll.kind = "threw"
    \/ lastPoll.kind = "ok" /\ lastPoll.state = "failed"

\* nothing is pending that could send a request: the run is over
NothingPending ==
    /\ inflight = <<>>
    /\ timers = <<>>
    /\ runPc = "idle"

\* C2 as stated: after a non-2xx answer or an answer with state 'failed' nothing more is
\* sent, loading is false and error is the answer's message field, or 'Generation
\* failed' when the answer has none.
C2_AsStated ==
    Failed =>
        /\ NothingPending
        /\ loading = FALSE
        /\ error = Some(IF lastPoll.message = Null THEN "Generation failed"
                        ELSE lastPoll.message[1])

\* C2 amended: after a non-2xx answer or an answer with state 'failed' nothing more is
\* sent and loading is false; error is 'Get result failed: ' followed by the answer's
\* text after a non-2xx answer, and after a 'failed' answer it is the message field, or
\* 'Generation failed' when that field is absent or empty.
C2_FailuresTerminal ==
    Failed =>
        /\ NothingPending
        /\ loading = FALSE
        /\ error = Some(IF lastPoll.kind = "threw"
                        THEN "Get result failed: " \o lastPoll.text
                        ELSE IF lastPoll.message \in {Null, Some("")}
                        THEN "Generation failed"
                        ELSE lastPoll.message[1])

\* C2 witness: a run ended by an answer with state 'failed' that carried a message
C2_Witness ==
    /\ lastPoll.kind = "ok"
    /\ lastPoll.state = "failed"
    /\ error = Some("quota exceeded")
    /\ ~loading

\* the current run is polling a task
Polling == runPc = "awaitPoll"

\* no status request is in flight and no poll is scheduled
PollingStopped == GetCount(inflight) = 0 /\ timers = <<>>

\* C3 as stated: once the task polled has reached 'success' or 'failed', polling
\* eventually stops and loading eventually becomes false; and while the task has not
\* reached a terminal state, every 2xx answer is followed by a further poll.
C3_AsStated ==
    /\ (Polling /\ remote[taskId] \in Terminal) ~> (PollingStopped /\ ~loading)
    /\ [][Answered /\ lastPoll'.kind = "ok" /\ remote[taskId] \notin Terminal =>
             timers' # <<>> /\ loading']_vars

\* C4 as stated: every status request asks for the legacy format, and when the answers
\* have the documented legacy shape the progress of each answer is reported and, once
\* an answer has reported the finished task (progress 100, the object with the download
\* URLs), pollResult has resolved with that answer.
C4_AsStated ==
    /\ \A i \in 1..Len(inflight) : inflight[i].kind = "get" => inflight[i].legacy
    /\ respShape = "legacy" /\ progress = 100 =>
          /\ promise = "resolved"
          /\ result # Null
          /\ result[1].object

\* C5: the task states passed to onStateChange during one run never step back along
\* created -> queueing -> processing -> {success | failed}, and no answer is observed
\* after 'success' or 'failed' has been observed.
C5_ObservedMonotonic ==
    [][Answered /\ lastPoll'.kind = "ok" =>
          /\ state \notin Terminal
          /\ state' = lastPoll'.state
          /\ (state \in TaskStates /\ state' \in TaskStates => Rank(state') >= Rank(state))
      ]_vars

\* C5 witness: 'processing' has been observed and the answer of the next poll, not yet
\* handled, will report the later stage 'success'
C5_Witness ==
    /\ Polling
    /\ state = "processing"
    /\ GetCount(inflight) = 1
    /\ remote[taskId] = "success"

\* the image references a request body carries
Images(req) == req.body[1].images

\* C6: nothing is submitted while imagePaths is empty, and every submit request sent
\* carries between 1 and 5 image references under keys from front, back, left, right,
\* other.
C6_SubmitHasImages ==
    /\ DOMAIN imagePaths = {} => submits = 0
    /\ \A i \in 1..Len(inflight) :
          inflight[i].kind = "submit" =>
              /\ DOMAIN Images(inflight[i]) \subseteq ImageKeys
              /\ Cardinality(DOMAIN Images(inflight[i])) \in 1..5

\* C6 witness: a submit request with four image references is in flight
C6_Witness ==
    \E i \in 1..Len(inflight) :
        /\ inflight[i].kind = "submit"
        /\ Cardinality(DOMAIN Images(inflight[i])) = 4

\* this step sends a submit request
Submitted == submits' = submits + 1

\* C7 as stated: a request submitted in mode 'multi' holds front, back, left and right,
\* taken in that order from the first four uploaded files, and a request submitted in
\* mode 'single' holds 'other' alone.
C7_AsStated ==
    [][Submitted =>
          LET images == Images(inflight'[Len(inflight')])
          IN  /\ mode = "multi" =>
                    /\ DOMAIN images = {"front", "back", "left", "right"}
                    /\ Len(selectedFiles) >= 4
                    /\ images["front"] = "/uploads/" \o selectedFiles[1]
                    /\ images["back"] = "/uploads/" \o selectedFiles[2]
                    /\ images["left"] = "/uploads/" \o selectedFiles[3]
                    /\ images["right"] = "/uploads/" \o selectedFiles[4]
              /\ mode = "single" => DOMAIN images = {"other"}
      ]_vars

\* the status requests in flight and the polls scheduled for task t
PendingPolls(t) ==
    Cardinality({i \in 1..Len(inflight) : inflight[i].kind = "get" /\ inflight[i].task = t})
    + Cardinality({j \in 1..Len(timers) : timers[j].task = t})

\* C8: for each task at most one status request or poll timer is pending at any
\* moment, and none is pending for a task other than the one being polled.
C8_OnePollAtATime ==
    /\ \A t \in 1..MaxSubmits : PendingPolls(t) <= 1
    /\ \A t \in 1..MaxSubmits : PendingPolls(t) = 1 => Polling /\ t = taskId
    /\ Polling => PendingPolls(taskId) = 1

\* C8 witness: the second poll of a task is scheduled and no request is in flight
C8_Witness ==
    /\ Polling
    /\ lastPoll.kind = "ok"
    /\ Len(timers) = 1
    /\ GetCount(inflight) = 0

ItemsOf(items, command) ==
    UNION {{items[i].items[k] : k \in 1..Len(items[i].items)} :
             i \in {j \in 1..Len(items) : items[j].command = command}}

\* the inserted menus: the items of the menu bar the host's standard menu bar lacks
InsertedMenus ==
    {i \in 1..Len(menuBar) : \A k \in 1..Len(StdMenuBar) : menuBar[i] # StdMenuBar[k]}

\* C10 as stated: once ArchiGui is initialised, Archi_ProjectContext and
\* Archi_FloorPlaner are registered with the command manager, the Archi tool bar holds
\* both and so does the menu inserted into the menu bar.
C10_AsStated ==
    "ArchiGui" \in modules =>
        /\ {"Archi_ProjectContext", "Archi_FloorPlaner"} \subseteq commands
        /\ toolBars # <<>> =>
              {"Archi_ProjectContext", "Archi_FloorPlaner"} \subseteq ItemsOf(toolBars, "Archi")
        /\ menuBar # <<>> =>
              \E i \in InsertedMenus :
                  {"Archi_ProjectContext", "Archi_FloorPlaner"} \subseteq
                      {menuBar[i].items[k] : k \in 1..Len(menuBar[i].items)}

\* this step is a setVolume(v) call
VolumeSet(v) == SetVolume(v)

\* C11: for every v, after setVolume(v) the audio output volume is clamp(v, 0, 100) / 100
\* (the single-precision number nearest to it), so it lies in [0, 1]; and setVolume
\* changes nothing else: not the player (playback state, position, looping), the
\* controls, their visibility or the frame mapping, and it requests nothing of the player.
C11_SetVolumeClamps ==
    [][\A v \in Volumes : VolumeSet(v) =>
          LET c == IF v < 0 THEN 0 ELSE IF v > 100 THEN 100 ELSE v
              f == m_audioOutput'.volume
              gap == 100 * f.m - c * Pow2(f.e)
          IN  /\ 2 * gap <= 100 /\ 2 * gap >= 0 - 100
              /\ 0 <= f.m /\ f.m <= Pow2(f.e)
              /\ UNCHANGED <<m_player, m_playPauseButton, m_positionSlider, m_timeLabel,
                             m_isSliderBeingMoved, m_seekPreviewAfterLoad,
                             m_controlsVisible, m_autoLoop, m_frameRate, m_totalFrames>>
              /\ calls' = <<>> /\ emitted' = <<>>
      ]_vars

\* C11 witness: a negative volume was set, and stored as 0, while media was playing in a
\* loop with the controls hidden
C11_Witness ==
    /\ m_audioOutput.volume.m = 0
    /\ m_player.playbackState = "PlayingState"
    /\ m_autoLoop
    /\ ~m_controlsVisible

\* C12 as stated: for every v, volume() called after setVolume(v) returns
\* clamp(v, 0, 100).
C12_AsStated ==
    [][\A v \in Volumes : VolumeSet(v) =>
          volume' = (IF v < 0 THEN 0 ELSE IF v > 100 THEN 100 ELSE v)]_vars

\* the height a column takes whose images are `labels`, each followed by the gap
ColumnHeight(labels, gap) ==
    LET RECURSIVE Sum(_)
        Sum(i) == IF i = 0 THEN 0 ELSE labels[i].height + gap + Sum(i - 1)
    IN  Sum(Len(labels))

\* C14 as stated: once a gallery holds an image, every image in it is 200 wide, the
\* height list has one entry per column, each entry is the sum over the column's images
\* of height plus gap, no index was out of range, and the columns are filled smallest
\* first, so that an image is in a later column only when the earlier ones hold one too.
C14_AsStated ==
    \A g \in Galleries :
        LabelCount(g) > 0 =>
            /\ ~crashed
            /\ Len(m_heights[g]) = Len(m_layouts[g])
            /\ \A c \in 1..Len(m_layouts[g]) :
                  /\ \A i \in 1..Len(m_layouts[g][c]) : m_layouts[g][c][i].width = 200
                  /\ m_heights[g][c] = ColumnHeight(m_layouts[g][c], ContextImageStyle.gap)
                  /\ c > 1 /\ m_layouts[g][c] # <<>> => m_layouts[g][c - 1] # <<>>

\* this step is the end of the media being reached, the signals in the given order
EndReached(stateFirst) == MediaEnds(stateFirst)

\* C13: when EndOfMedia is handled with autoLoop on, position 0 is requested, and play
\* is requested after it exactly when the player was still Playing; with autoLoop off
\* the one request is the position endFramePosition(), play is not requested, and the
\* player is left Stopped at EndOfMedia on that position.
C13_LoopAtEnd ==
    [][\A stateFirst \in BOOLEAN : EndReached(stateFirst) =>
          /\ m_autoLoop =>
                calls' = IF stateFirst THEN <<"setPosition(0)">>
                         ELSE <<"setPosition(0)", "play()">>
          /\ ~m_autoLoop =>
                /\ calls' = <<SetPositionCall(endFramePosition(Widget))>>
                /\ m_player'.playbackState = "StoppedState"
                /\ m_player'.mediaStatus = "EndOfMedia"
                /\ m_player'.position = endFramePosition(Widget)
      ]_vars

\* C13 witness: looping media reached its end while playing and was started again
C13_Witness ==
    /\ m_autoLoop
    /\ calls = <<"setPosition(0)", "play()">>
    /\ m_player.playbackState = "PlayingState"
    /\ m_player.position = 0

\* the playbackStateChanged signals among the signals e
PlaybackSignals(e) ==
    SelectSeq(e, LAMBDA x : x \in {"playbackStateChanged(true)",
                                   "playbackStateChanged(false)"})

\* this step is a click on the play/pause button
PlayPauseClicked == OnPlayPauseClicked

\* C15: a click on the play/pause button requests pause when the player is Playing and
\* play otherwise, and nothing else; in every state the button shows the Pause icon and
\* tool tip exactly when the player is Playing; and when a step changes the playback
\* state, the last playbackStateChanged it emits carries true exactly when the new
\* state is Playing.
C15_PlayPauseToggles ==
    /\ [](m_playPauseButton =
              IF m_player.playbackState = "PlayingState"
              THEN [icon |-> "SP_MediaPause", toolTip |-> "Pause"]
              ELSE [icon |-> "SP_MediaPlay", toolTip |-> "Play"])
    /\ [][ /\ PlayPauseClicked =>
                  calls' = IF m_player.playbackState = "PlayingState"
                           THEN <<"pause()">> ELSE <<"play()">>
           /\ m_player'.playbackState # m_player.playbackState =>
                  /\ PlaybackSignals(emitted') # <<>>
                  /\ PlaybackSignals(emitted')[Len(PlaybackSignals(emitted'))] =
                         IF m_player'.playbackState = "PlayingState"
                         THEN "playbackStateChanged(true)"
                         ELSE "playbackStateChanged(false)"
         ]_vars

\* C15 witness: playing media was paused from the button
C15_Witness ==
    /\ calls = <<"pause()">>
    /\ emitted = <<"playbackStateChanged(false)">>
    /\ m_player.playbackState = "PausedState"
    /\ m_playPauseButton.icon = "SP_MediaPlay"

\* this step is a stop(), from the Stop button or from the scripting layer
Stopping == Stop \/ OnStopClicked

\* C16 as stated: after stop() the player is in the Stopped state and the last position
\* requested is previewFramePosition().
C16_AsStated ==
    [][Stopping =>
          /\ m_player'.playbackState = "StoppedState"
          /\ calls'[Len(calls')] = SetPositionCall(previewFramePosition(Widget))
      ]_vars

\* how often the requests q ask for position p
Seeks(q, p) == Cardinality({i \in 1..Len(q) : q[i] = SetPositionCall(p)})

\* this step is a loadVideo(path) call
Loading(path) == \E resets \in BOOLEAN : LoadVideo(path, resets)

\* C17: a loadVideo(path) call asks the player for the source and, last, for position 0,
\* leaves the source path and the position 0, clears the frame mapping and arms the
\* preview seek; nothing else arms it; the first LoadedMedia handled while it is armed
\* seeks to the preview frame first and disarms it, and a LoadedMedia handled while it
\* is not armed does not seek: stopping media that plays or is paused, which makes the
\* status LoadedMedia again, seeks to the preview frame once, for stop() itself, and once
\* more only when the seek was armed.
C17_PreviewSeekOnce ==
    [][ /\ \A path \in VideoPaths : Loading(path) =>
               /\ calls'[1] = "setSource(" \o path \o ")"
               /\ calls'[Len(calls')] = "setPosition(0)"
               /\ m_player'.source = path
               /\ m_player'.position = 0
               /\ m_frameRate' = 0 /\ m_totalFrames' = 0
               /\ m_seekPreviewAfterLoad'
        /\ (\A path \in VideoPaths : ~Loading(path)) =>
               (m_seekPreviewAfterLoad' => m_seekPreviewAfterLoad)
        /\ MediaLoaded =>
               /\ ~m_seekPreviewAfterLoad'
               /\ Seeks(calls', previewFramePosition(Widget)) =
                      IF m_seekPreviewAfterLoad THEN 1 ELSE 0
               /\ m_seekPreviewAfterLoad =>
                      calls'[1] = SetPositionCall(previewFramePosition(Widget))
        /\ Stopping /\ m_player.mediaStatus = "BufferedMedia" =>
               /\ ~m_seekPreviewAfterLoad'
               /\ Seeks(calls', previewFramePosition(Widget)) =
                      IF m_seekPreviewAfterLoad THEN 2 ELSE 1
      ]_vars

\* C17 witness: media that was paused after its load has been stopped: LoadedMedia was
\* handled again, and the only seek was the one of stop() itself
C17_Witness ==
    /\ ~m_seekPreviewAfterLoad
    /\ m_frameRate > 0
    /\ Len(calls) = 4
    /\ calls[1] = "stop()" /\ calls[2] = "play()" /\ calls[3] = "pause()"
    /\ calls[4] = SetPositionCall(previewFramePosition(Widget))

\* C18: handling LoadedMedia at the end of a load never starts playback: when the player
\* is not Playing, play is requested and pause right after it, as the last two requests,
\* and the player is left Paused; when it is Playing already, neither is requested and it
\* goes on Playing; and loadVideo itself never leaves the player Playing.
C18_LoadDoesNotPlay ==
    [][ /\ MediaLoaded /\ m_player.playbackState # "PlayingState" =>
               /\ Len(calls') >= 2
               /\ calls'[Len(calls') - 1] = "play()"
               /\ calls'[Len(calls')] = "pause()"
               /\ m_player'.playbackState = "PausedState"
        /\ MediaLoaded /\ m_player.playbackState = "PlayingState" =>
               /\ \A i \in 1..Len(calls') : calls'[i] \notin {"play()", "pause()"}
               /\ m_player'.playbackState = "PlayingState"
        /\ (\A path \in VideoPaths : Loading(path) =>
               m_player'.playbackState # "PlayingState")
      ]_vars

\* C18 witness: play() was requested while the media was loading, and the load ended
\* with the preview seek alone
C18_Witness ==
    /\ m_player.playbackState = "PlayingState"
    /\ m_player.mediaStatus = "BufferedMedia"
    /\ calls = <<SetPositionCall(previewFramePosition(Widget))>>
    /\ emitted = <<>>

\* this step is a move of the slider's handle by the user
Dragged == \E frameIndex \in DragTargets : SliderMoved(frameIndex)

\* C19: m_isSliderBeingMoved is true exactly while the slider is held down; a position
\* change the player reports while it is true (the duration staying as it is) leaves the
\* slider's value as it is, sets the time label to the new position and emits
\* positionChanged with it; and
\* onSliderMoved requests a position of the player only while it is true, the position
\* of the frame the handle was moved to.
C19_DraggingHoldsSlider ==
    /\ [](m_isSliderBeingMoved = m_positionSlider.down)
    /\ [][ /\ ( /\ m_isSliderBeingMoved /\ m_isSliderBeingMoved'
                /\ ~Dragged
                /\ m_player'.duration = m_player.duration
                /\ m_player'.position # m_player.position ) =>
                  /\ m_positionSlider'.value = m_positionSlider.value
                  /\ m_timeLabel' = formatTime(m_player'.position) \o " / "
                                        \o formatTime(m_player'.duration)
                  /\ \E i \in 1..Len(emitted') :
                         emitted'[i] =
                             "positionChanged(" \o ToString(m_player'.position) \o ")"
           /\ Dragged =>
                  /\ m_isSliderBeingMoved
                  /\ calls' = <<SetPositionCall(
                                    frameIndexToPosition(Widget, m_positionSlider'.value))>>
         ]_vars

\* C19 witness: playback advanced past the first second while the handle was held on
\* an earlier frame
C19_Witness ==
    /\ m_isSliderBeingMoved
    /\ emitted = <<"positionChanged(1000)">>
    /\ m_timeLabel = "00:01 / 00:02"
    /\ m_positionSlider.value = 1

\* C20 as stated: in every state the slider's range is [0, max(0, m_totalFrames - 1)] and
\* the last value written to the slider from a player position lies inside it.
C20_AsStated ==
    /\ m_positionSlider.maximum = Max(0, m_totalFrames - 1)
    /\ 0 <= m_positionSlider.written
    /\ m_positionSlider.written <= m_positionSlider.maximum

-----------------------------------------------------------------------------
(* The frame-index mapping and the preview positions *)

\* the arguments the two mapping functions are tried on while there is no frame rate
IdentityArguments == {0, 1, 120, 1500}

\* C21: the frame-index mapping round-trips.  Whenever the frame rate is positive,
\* positionToFrameIndex(frameIndexToPosition(i)) = i for every frame index i of the
\* media, 0 <= i <= m_totalFrames - 1; whenever the frame rate is not positive, both
\* functions return their argument.
C21_AsStated ==
    /\ m_frameRate > 0 =>
          \A i \in 0..(m_totalFrames - 1) :
              positionToFrameIndex(Widget, frameIndexToPosition(Widget, i)) = i
    /\ m_frameRate <= 0 =>
          \A a \in IdentityArguments :
              /\ frameIndexToPosition(Widget, a) = a
              /\ positionToFrameIndex(Widget, a) = a

FrameMapped == m_frameRate > 0 /\ m_totalFrames > 0

\* how far frame i is from the preview offset, in milliseconds times the frame rate
PreviewDistance(i) ==
    LET away == 1000 * i - previewOffsetMs * m_frameRate
    IN  IF away < 0 THEN 0 - away ELSE away

LastFramePosition == frameIndexToPosition(Widget, m_totalFrames - 1)

\* C22: whenever the media duration d is positive, previewFramePosition() and
\* endFramePosition() return positions inside [0, d], with a frame mapping and without
\* one.  With a frame mapping the preview position is the position of the frame of the
\* media that is nearest to 120 ms (the last frame when the media ends before), and the
\* end position is 200 ms before the last frame when that is positive; without one the
\* end position is 200 ms before the end when that is positive.
C22_PreviewPositionsInMedia ==
    m_player.duration > 0 =>
        LET p == previewFramePosition(Widget)
            e == endFramePosition(Widget)
            d == m_player.duration
        IN  /\ 0 <= p /\ p <= d
            /\ 0 <= e /\ e <= d
            /\ FrameMapped =>
                  /\ \E k \in 0..(m_totalFrames - 1) :
                        /\ p = frameIndexToPosition(Widget, k)
                        /\ \A j \in 0..(m_totalFrames - 1) :
                              PreviewDistance(k) <= PreviewDistance(j)
                  /\ LastFramePosition - endOffsetMs > 0 =>
                        e = LastFramePosition - endOffsetMs
            /\ ~FrameMapped => (d - endOffsetMs > 0 => e = d - endOffsetMs)

\* media with a frame mapping has been played to its end, and the widget has asked for
\* the end position, 200 ms before the last frame
C22_Witness ==
    /\ m_player.duration > 0
    /\ FrameMapped
    /\ m_player.mediaStatus = "EndOfMedia"
    /\ calls = <<SetPositionCall(endFramePosition(Widget))>>
    /\ m_player.position = LastFramePosition - endOffsetMs

\* media that lost its frame mapping to a second loadVideo of the same file, shorter
\* than the preview offset, has been stopped
C22_DurationOnly ==
    /\ m_player.duration > 0
    /\ m_player.duration <= previewOffsetMs
    /\ ~FrameMapped
    /\ Len(calls) > 0
    /\ calls[Len(calls)] = SetPositionCall(m_player.duration \div 4)

-----------------------------------------------------------------------------
(* The lifetime of the widget behind a VideoPlayerWidgetPy *)

Deletes(o) == o.deletedByWrapper + o.deletedByParent

\* C23: the widget a wrapper created is destroyed exactly once and never used after
\* its destruction, whatever the order of the wrapper's destruction, the destruction of
\* a Qt parent the widget was given through getWidget()'s pointer, and calls on the
\* wrapper: it is never deleted twice, it has been deleted once when the wrapper is
\* gone, and no call reaches it after it was destroyed.  A wrapper around a widget
\* supplied from outside never deletes it.
C23_AsStated ==
    \A i \in 1..MaxWrappers :
        LET o == wrappers[i]
        IN  /\ o.m_ownWidget => Deletes(o) <= 1
            /\ o.m_ownWidget /\ o.wrapper = "destroyed" => Deletes(o) = 1
            /\ o.m_ownWidget => ~o.usedAfterDelete
            /\ ~o.m_ownWidget => o.deletedByWrapper = 0

-----------------------------------------------------------------------------
(* The runs of the useHitem3D hook *)

RunStarts == runPc = "idle" /\ runPc' # "idle"
RunEnds == runPc # "idle" /\ runPc' = "idle"

\* C24: every submitImages run of the hook starts by setting loading true and
\* resetting error, progress, state and result, and ends with loading false however
\* it ends; and whenever loading is false after a run, exactly one of result and error
\* is non-null, so the error of a failed run is never shown with the result of a later
\* successful one.
C24_RunBrackets ==
    [][/\ RunStarts =>
             /\ loading'
             /\ error' = Null /\ progress' = 0 /\ state' = "" /\ result' = Null
       /\ RunEnds => ~loading'
       /\ submits' > 0 /\ ~loading' => (result' # Null) # (error' # Null)]_vars

\* a run whose task failed was followed by a run whose task succeeded: the result is
\* shown without the error of the first
C24_Witness ==
    /\ submits = 2
    /\ remote[1] = "failed"
    /\ remote[2] = "success"
    /\ ~loading
    /\ result # Null
    /\ error = Null

====
